---- MODULE Spec2Model ----
(***************************************************************************)
(* Model of src/main.py, the "US Debt Auto Tweet" script.                  *)
(*                                                                         *)
(* One run of main() is a straight line of steps; the model has one action *)
(* per step that talks to the outside (a GET, the preview print, the read  *)
(* of DRY_RUN, the credential check, the POST).  The outside world is the  *)
(* FiscalData dataset `db`, the wall clock `clock`, the process            *)
(* environment `env`, and the outcome of every HTTP exchange, which each   *)
(* action draws nondeterministically.                                     *)
(*                                                                         *)
(* Amounts are whole dollars (the API's cents are dropped); a record_date  *)
(* string "YYYY-MM-DD" is the tuple <<y, m, d>>, which orders the way the  *)
(* string does; a datetime.date is the record [year, month, day].          *)
(***************************************************************************)
EXTENDS Integers, Sequences, FiniteSets, TLC

VARIABLES
    env,          \* os.environ: variable name -> value, None when unset
    db,           \* the rows the FiscalData endpoint serves
    clock,        \* date.today()
    pc,           \* position of the run in main()
    calls,        \* network calls issued so far, in order
    out,          \* lines written to stdout / stderr, in order
    exit_code,    \* <<>> while running, <<code>> once the process has ended
    latest_row,   \* build_tweet_text: latest_row
    y_row,        \* build_tweet_text: y_row
    w_row,        \* build_tweet_text: w_row
    tweet,        \* the text build_tweet_text returned
    post_status   \* what became of the POST

vars == <<env, db, clock, pc, calls, out, exit_code,
          latest_row, y_row, w_row, tweet, post_status>>

-----------------------------------------------------------------------------
(* Bounds of the model *)

WindowDays == 9
MaxRecords == 3
MaxHundredths == 120

(* Program constants *)

MAX_STALE_DAYS == 3
Billion == 1000000000

-----------------------------------------------------------------------------
(* datetime.date: calendar arithmetic *)

IsLeap(y) == (y % 4 = 0) /\ ((y % 100 # 0) \/ (y % 400 = 0))

DaysInMonth(y, m) ==
    IF m = 2 THEN (IF IsLeap(y) THEN 29 ELSE 28)
    ELSE IF m \in {4, 6, 9, 11} THEN 30 ELSE 31

DaysBeforeYear(y) ==
    LET p == y - 1 IN p * 365 + (p \div 4) - (p \div 100) + (p \div 400)

DaysBeforeMonth(y, m) ==
    <<0, 31, 59, 90, 120, 151, 181, 212, 243, 273, 304, 334>>[m]
        + (IF m > 2 /\ IsLeap(y) THEN 1 ELSE 0)

ToOrdinal(d) == DaysBeforeYear(d.year) + DaysBeforeMonth(d.year, d.month) + d.day

FirstDay == [year |-> 2024, month |-> 12, day |-> 25]

Years == {FirstDay.year - 1, FirstDay.year, FirstDay.year + 1}

FromOrdinal(n) ==
    LET y == CHOOSE yy \in Years :
                 DaysBeforeYear(yy) < n /\ n <= DaysBeforeYear(yy + 1)
        r == n - DaysBeforeYear(y)
        m == CHOOSE mm \in 1..12 :
                 DaysBeforeMonth(y, mm) < r
                 /\ r <= DaysBeforeMonth(y, mm) + DaysInMonth(y, mm)
    IN  [year |-> y, month |-> m, day |-> r - DaysBeforeMonth(y, m)]

\* date - timedelta(days=k)
MinusDays(d, k) == FromOrdinal(ToOrdinal(d) - k)

\* (a - b).days
DaysBetween(a, b) == ToOrdinal(a) - ToOrdinal(b)

\* date.isoformat(): "YYYY-MM-DD"
IsoFormat(d) == <<d.year, d.month, d.day>>

\* dateparser.parse(s).date()
ParseDate(s) == [year |-> s[1], month |-> s[2], day |-> s[3]]

\* order of two "YYYY-MM-DD" strings
IsoLte(a, b) ==
    \/ a[1] < b[1]
    \/ a[1] = b[1] /\ a[2] < b[2]
    \/ a[1] = b[1] /\ a[2] = b[2] /\ a[3] <= b[3]

-----------------------------------------------------------------------------
(* The FiscalData endpoint, as the query parameters of the two fetches use it *)

NoRow == [record_date |-> <<0, 0, 0>>, tot_pub_debt_out_amt |-> 0]

\* "filter": <<>> when the request has none, <<target>> for record_date:lte:target
Matching(filter) ==
    IF filter = <<>> THEN db
    ELSE {r \in db : IsoLte(r.record_date, filter[1])}

\* "sort": "-record_date", "page[size]": 1
ServerData(filter) ==
    LET rows == Matching(filter) IN
    IF rows = {} THEN <<>>
    ELSE <<CHOOSE r \in rows :
               \A s \in rows : IsoLte(s.record_date, r.record_date)>>

GetOutcomes == {"ok", "conn_error", "http_error", "bad_json"}

\* _request: the row, or the exception raised
Request(filter, net) ==
    IF net # "ok" THEN [err |-> net, row |-> NoRow]
    ELSE LET data == ServerData(filter) IN
         IF data = <<>> THEN [err |-> "no_data", row |-> NoRow]
         ELSE [err |-> "none", row |-> data[1]]

LatestParams == <<>>

\* a request that leaves the date filter out
OnOrBeforeNoFilter(target_iso_date) == <<>>

OnOrBeforeParams(target_iso_date) == <<target_iso_date>>

GetCall(filter) == [kind |-> "GET", filter |-> filter]

PostCall == [kind |-> "POST", filter |-> <<>>]

-----------------------------------------------------------------------------
(* Formatting *)

Abs(x) == IF x < 0 THEN 0 - x ELSE x

NoText == [sign |-> "", hundredths |-> 0]

\* billions(x) = x / 1_000_000_000.0, kept exact as a fraction
billions(x) == [num |-> x, den |-> Billion]

\* f"{q:,.2f}" of a non-negative fraction: the number of hundredths shown
Fixed2(q, tie_up) ==
    LET unit == q.den \div 100
        whole == q.num \div unit
        rest == q.num % unit
    IN  IF 2 * rest > unit THEN whole + 1
        ELSE IF 2 * rest < unit THEN whole
        ELSE IF tie_up THEN whole + 1 ELSE whole

AbsFraction(q) == [num |-> Abs(q.num), den |-> q.den]

\* a sign test that forgets zero
SignOfStrict(delta) == IF delta > 0 THEN "+" ELSE "-"

SignOf(delta) == IF delta >= 0 THEN "+" ELSE "-"

\* format_billions: f"{sign}${abs(billions(delta)):,.2f} B"
format_billions(delta, tie_up) ==
    [sign |-> SignOf(delta),
     hundredths |-> Fixed2(AbsFraction(billions(delta)), tie_up)]

DailyInc(today_debt, y_debt) == today_debt - y_debt

WeeklyInc(today_debt, w_debt) == today_debt - w_debt

NoTweet == [today |-> 0, yesterday |-> 0, week_ago |-> 0,
            daily |-> NoText, weekly |-> NoText]

\* tie_d, tie_w: which way binary floating point takes an exact x.xx5 tie
MakeTweet(today_debt, y_debt, w_debt, tie_d, tie_w) ==
    [today |-> today_debt, yesterday |-> y_debt, week_ago |-> w_debt,
     daily |-> format_billions(DailyInc(today_debt, y_debt), tie_d),
     weekly |-> format_billions(WeeklyInc(today_debt, w_debt), tie_w)]

-----------------------------------------------------------------------------
(* The environment *)

CredNames == {"X_API_KEY", "X_API_SECRET", "X_ACCESS_TOKEN", "X_ACCESS_TOKEN_SECRET"}

EnvNames == CredNames \cup {"DRY_RUN"}

\* os.getenv(name): <<>> is None
GetenvOpt(name) == env[name]

\* os.getenv(name, default)
Getenv(name, default) == IF env[name] = <<>> THEN default ELSE env[name][1]

\* truth value of an Optional[str]
Truthy(v) == v # <<>> /\ v[1] # ""

\* a check for None only, which lets empty strings through
HaveCredentialsSet == \A n \in CredNames : GetenvOpt(n) # <<>>

\* all([api_key, api_secret, access_token, access_token_secret])
HaveCredentials == \A n \in CredNames : Truthy(GetenvOpt(n))

\* a flag test against "true" instead of "1"
IsDryRunTrue(dry_run) == dry_run = "true"

IsDryRun(dry_run) == dry_run = "1"

-----------------------------------------------------------------------------
(* Output *)

Line(stream, text, detail) == [stream |-> stream, text |-> text, detail |-> detail]

BuildError(why) == Line("stderr", "[ERROR] Failed to build tweet", why)

PostError(why) == Line("stderr", "[ERROR] Failed to post tweet", why)

PreviewLine == Line("stdout", "=== Generated Tweet Preview ===", "")

DryRunLine == Line("stdout", "[INFO] DRY_RUN=1 -> not posting to X.", "")

PostedLine == Line("stdout", "[INFO] Tweet posted successfully.", "")

ResponseLine == Line("stdout", "resp", "")

Exit(code) == /\ exit_code' = <<code>>
              /\ pc' = "exited"

-----------------------------------------------------------------------------
(* build_tweet_text, called from main's first try block *)

\* a handler that logs the error and lets the step run again
BuildFailedRetry(why) ==
    /\ out' = Append(out, BuildError(why))
    /\ UNCHANGED <<pc, exit_code, latest_row, y_row, w_row, tweet>>

\* except Exception: print the error, sys.exit(1)
BuildFailed(why) ==
    /\ out' = Append(out, BuildError(why))
    /\ Exit(1)
    /\ UNCHANGED <<latest_row, y_row, w_row, tweet>>

\* a guard that already rejects at the limit
IsStaleInclusive(days_old) == days_old >= MAX_STALE_DAYS

IsStale(days_old) == days_old > MAX_STALE_DAYS

\* a target that forgets to step back a day
YesterdayTargetSameDay(today_record_date) == MinusDays(today_record_date, 0)

YesterdayTarget(today_record_date) == MinusDays(today_record_date, 1)

\* a target counted back from the clock instead of from the latest record
WeekAgoFromClock(today_record_date) == MinusDays(clock, 7)

WeekAgoTarget(today_record_date) == MinusDays(today_record_date, 7)

TodayRecordDate == ParseDate(latest_row.record_date)

\* lines 109-119: the latest row and the staleness guard
FetchLatest ==
    /\ pc = "fetch_latest"
    /\ calls' = Append(calls, GetCall(LatestParams))
    /\ \E net \in GetOutcomes :
         LET r == Request(LatestParams, net) IN
         IF r.err # "none" THEN BuildFailed(r.err)
         ELSE LET today_record_date == ParseDate(r.row.record_date)
                  days_old == DaysBetween(clock, today_record_date)
              IN  IF IsStale(days_old) THEN BuildFailed("stale")
                  ELSE /\ latest_row' = r.row
                       /\ pc' = "fetch_yesterday"
                       /\ UNCHANGED <<out, exit_code, y_row, w_row, tweet>>
    /\ UNCHANGED <<env, db, clock, post_status>>

\* lines 122-124
FetchYesterday ==
    /\ pc = "fetch_yesterday"
    /\ LET filter == OnOrBeforeParams(IsoFormat(YesterdayTarget(TodayRecordDate))) IN
       /\ calls' = Append(calls, GetCall(filter))
       /\ \E net \in GetOutcomes :
            LET r == Request(filter, net) IN
            IF r.err # "none" THEN BuildFailed(r.err)
            ELSE /\ y_row' = r.row
                 /\ pc' = "fetch_week_ago"
                 /\ UNCHANGED <<out, exit_code, latest_row, w_row, tweet>>
    /\ UNCHANGED <<env, db, clock, post_status>>

\* lines 127-144
FetchWeekAgo ==
    /\ pc = "fetch_week_ago"
    /\ LET filter == OnOrBeforeParams(IsoFormat(WeekAgoTarget(TodayRecordDate))) IN
       /\ calls' = Append(calls, GetCall(filter))
       /\ \E net \in GetOutcomes :
            LET r == Request(filter, net) IN
            IF r.err # "none" THEN BuildFailed(r.err)
            ELSE /\ w_row' = r.row
                 /\ \E tie_d, tie_w \in BOOLEAN :
                      /\ (y_row = r.row) => (tie_d = tie_w)
                      /\ tweet' = MakeTweet(latest_row.tot_pub_debt_out_amt,
                                            y_row.tot_pub_debt_out_amt,
                                            r.row.tot_pub_debt_out_amt,
                                            tie_d, tie_w)
                 /\ pc' = "preview"
                 /\ UNCHANGED <<out, exit_code, latest_row, y_row>>
    /\ UNCHANGED <<env, db, clock, post_status>>

-----------------------------------------------------------------------------
(* main, after the build *)

\* a preview printed only when the run is a dry run
PreviewOnlyInDryRun ==
    /\ pc = "preview"
    /\ out' = IF IsDryRun(Getenv("DRY_RUN", "0")) THEN Append(out, PreviewLine) ELSE out
    /\ pc' = "dry_run"
    /\ UNCHANGED <<env, db, clock, calls, exit_code, latest_row,
                   y_row, w_row, tweet, post_status>>

\* lines 208-210
Preview ==
    /\ pc = "preview"
    /\ out' = Append(out, PreviewLine)
    /\ pc' = "dry_run"
    /\ UNCHANGED <<env, db, clock, calls, exit_code, latest_row,
                   y_row, w_row, tweet, post_status>>

\* lines 213-216
DryRunCheck ==
    /\ pc = "dry_run"
    /\ IF IsDryRun(Getenv("DRY_RUN", "0"))
       THEN /\ out' = Append(out, DryRunLine)
            /\ Exit(0)
       ELSE /\ pc' = "post_credentials"
            /\ UNCHANGED <<out, exit_code>>
    /\ UNCHANGED <<env, db, clock, calls, latest_row,
                   y_row, w_row, tweet, post_status>>

\* except Exception around post_to_x: print the error, sys.exit(1)
PostFailed(why) ==
    /\ out' = Append(out, PostError(why))
    /\ Exit(1)

\* post_to_x, lines 158-164
PostCredentials ==
    /\ pc = "post_credentials"
    /\ IF HaveCredentials
       THEN /\ pc' = "post_send"
            /\ UNCHANGED <<out, exit_code>>
       ELSE PostFailed("missing_credentials")
    /\ UNCHANGED <<env, db, clock, calls, latest_row,
                   y_row, w_row, tweet, post_status>>

PostOutcomes == {"ok", "conn_error", "http_error", "ok_bad_json"}

\* post_to_x, lines 178-194, and main, lines 221-226
PostSend ==
    /\ pc = "post_send"
    /\ calls' = Append(calls, PostCall)
    /\ \E net \in PostOutcomes :
         CASE net = "conn_error" ->
                /\ post_status' = "conn_error"
                /\ PostFailed("conn_error")
           [] net = "http_error" ->
                /\ post_status' = "rejected"
                /\ PostFailed("http_error")
           [] net = "ok_bad_json" ->
                /\ post_status' = "accepted"
                /\ PostFailed("bad_json")
           [] net = "ok" ->
                /\ post_status' = "accepted"
                /\ out' = out \o <<PostedLine, ResponseLine>>
                /\ Exit(0)
    /\ UNCHANGED <<env, db, clock, latest_row, y_row, w_row, tweet>>

-----------------------------------------------------------------------------
(* Inputs of a run *)

WindowDates ==
    {FromOrdinal(ToOrdinal(FirstDay) + i) : i \in 0..(WindowDays - 1)}

LastDay == FromOrdinal(ToOrdinal(FirstDay) + WindowDays - 1)

Row(d, amt) == [record_date |-> IsoFormat(d), tot_pub_debt_out_amt |-> amt]

DayIndex(d) == ToOrdinal(d) - ToOrdinal(FirstDay)

Base == 1000000000

Step == 12345678

\* the debt on day d: it rises from day to day, falls, or stays flat
AmountOn(trend, d) ==
    CASE trend = "rising" -> Base + DayIndex(d) * Step
      [] trend = "falling" -> Base - DayIndex(d) * Step

\* every dataset of at most n rows, one per date, dated inside the window
DataSets(n, trends) ==
    UNION {{{Row(d, AmountOn(t, d)) : d \in D} : t \in trends} :
           D \in {S \in SUBSET WindowDates : Cardinality(S) <= n}}

\* the days 0, 1, 4 and 8 days before the last one
RunDates == {MinusDays(LastDay, k) : k \in {0, 1, MAX_STALE_DAYS + 1, 8}}

RunDataSets == {{Row(d, AmountOn("rising", d)) : d \in D} : D \in SUBSET RunDates}

DryRunValues == {<<>>, <<"0">>, <<"1">>, <<"true">>}

CredValues == {<<>>, <<"">>, <<"tok">>}

Envs(dry, cred) ==
    {e \in [EnvNames -> dry \cup cred] :
        /\ e["DRY_RUN"] \in dry
        /\ \A n \in CredNames : e[n] \in cred}

\* every value of DRY_RUN the code tells apart, every credential unset, empty or set
RunEnvs == Envs(DryRunValues, CredValues)

\* a dry run and a posting run
DataEnvs == Envs({<<>>, <<"1">>}, {<<"tok">>})

\* dry or not, with all four credentials or with none
MockEnvs ==
    {e \in Envs({<<"0">>, <<"1">>}, {<<>>, <<"tok">>}) :
        \A a, b \in CredNames : e[a] = e[b]}

WindowDataSets == DataSets(MaxRecords, {"rising", "falling"})

Start ==
    /\ pc = "fetch_latest"
    /\ calls = <<>>
    /\ out = <<>>
    /\ exit_code = <<>>
    /\ latest_row = NoRow
    /\ y_row = NoRow
    /\ w_row = NoRow
    /\ tweet = NoTweet
    /\ post_status = "none"

\* every environment, small datasets, run on the last day of the window
Init ==
    /\ env \in RunEnvs
    /\ db \in RunDataSets
    /\ clock = LastDay
    /\ Start

\* every dataset and clock of the window, a dry run and a posting run
InitData ==
    /\ env \in DataEnvs
    /\ db \in WindowDataSets
    /\ clock \in WindowDates
    /\ Start

Low == 100000000

Remainders == {0, 1, 4999999, 5000000, 5000001, 9999999}

Magnitudes ==
    {q * (Billion \div 100) + r : q \in 0..MaxHundredths, r \in Remainders}

\* three mock records: today, the day before, a week before
MockData ==
    LET rows(t, y, w) == {Row(LastDay, t), Row(MinusDays(LastDay, 1), y),
                          Row(MinusDays(LastDay, 7), w)}
    IN  UNION {{rows(Low + m, Low, Low), rows(Low, Low + m, Low + m),
                rows(Low, Low + m, Low)} : m \in Magnitudes}

InitMock ==
    /\ env \in MockEnvs
    /\ db \in MockData
    /\ clock = LastDay
    /\ Start

Next ==
    \/ FetchLatest
    \/ FetchYesterday
    \/ FetchWeekAgo
    \/ Preview
    \/ DryRunCheck
    \/ PostCredentials
    \/ PostSend

Spec == Init /\ [][Next]_vars

SpecData == InitData /\ [][Next]_vars

SpecMock == InitMock /\ [][Next]_vars

-----------------------------------------------------------------------------
(* What a run has done so far *)

Lines == {out[i] : i \in 1..Len(out)}

Posted == \E i \in 1..Len(calls) : calls[i].kind = "POST"

Previewed == PreviewLine \in Lines

Built == tweet # NoTweet

Exited == pc = "exited"

ErrorLogged == \E l \in Lines : l.stream = "stderr"

MissingCredential == \E n \in CredNames : env[n] \in {<<>>, <<"">>}

DryRunSet == env["DRY_RUN"] = <<"1">>

\* the dataset, read by day number instead of by date string
OrdOf(r) == ToOrdinal(ParseDate(r.record_date))

OnOrBefore(n) == {r \in db : OrdOf(r) <= n}

Newest(rows) ==
    LET ord == [r \in rows |-> OrdOf(r)]
    IN  CHOOSE r \in rows : \A s \in rows : ord[s] <= ord[r]

LatestOrd == OrdOf(Newest(db))

DaysOld == ToOrdinal(clock) - LatestOrd

-----------------------------------------------------------------------------
(* C1: with DRY_RUN equal to "1" no POST is ever issued, whatever the data
   and whatever the four credential variables hold. *)
C1_DryRunNeverPosts ==
    DryRunSet => (~Posted /\ post_status = "none" /\ pc # "post_send")

C1_Witness ==
    /\ DryRunSet
    /\ \A n \in CredNames : env[n] = <<>>
    /\ Built
    /\ Exited
    /\ DryRunLine \in Lines

(* C2: in a run that is not a dry run and built its tweet, a credential that
   is unset or empty ends the run with exit code 1 before any POST; the POST
   is issued only with all four credentials present and non-empty. *)
C2_MissingCredentialAborts ==
    /\ (Posted \/ pc = "post_send") => ~MissingCredential
    /\ (Exited /\ Built /\ ~DryRunSet /\ MissingCredential) =>
           /\ exit_code = <<1>>
           /\ ~Posted
           /\ out[Len(out)] = PostError("missing_credentials")

C2_Witness ==
    /\ Exited
    /\ Built
    /\ env["DRY_RUN"] = <<"0">>
    /\ env["X_ACCESS_TOKEN"] = <<"">>
    /\ \A n \in CredNames \ {"X_ACCESS_TOKEN"} : env[n] = <<"tok">>
    /\ exit_code = <<1>>

(* C3: once the first GET has returned the latest record, the staleness guard
   rejects exactly when that record is more than MAX_STALE_DAYS days older
   than the clock's date: then the run ends with exit code 1 after that one
   GET, with no preview and no POST; at 3 days or less, or a record dated
   after the clock, the guard does not reject. *)
C3_StalenessGuard ==
    LET rejected == BuildError("stale") \in Lines
        answered == /\ Len(calls) >= 1
                    /\ db # {}
                    /\ \A e \in GetOutcomes : out # <<BuildError(e)>>
        days_old == DaysOld
    IN  /\ rejected => (db # {} /\ days_old > MAX_STALE_DAYS)
        /\ (answered /\ days_old > MAX_STALE_DAYS) =>
               /\ rejected
               /\ Exited
               /\ exit_code = <<1>>
               /\ calls = <<GetCall(<<>>)>>
               /\ out = <<BuildError("stale")>>
               /\ ~Built
        /\ (answered /\ days_old <= MAX_STALE_DAYS) =>
               /\ ~rejected
               /\ latest_row = Newest(db)

C3_Witness ==
    /\ db # {}
    /\ DaysOld = MAX_STALE_DAYS + 1
    /\ out = <<BuildError("stale")>>
    /\ exit_code = <<1>>

(* C4: a finished run has exit code 0 exactly when it completed a dry run
   after a successful build or its POST came back with a success response,
   and exit code 1 otherwise. *)
C4_ExitCodeIffSuccess ==
    Exited =>
        /\ exit_code \in {<<0>>, <<1>>}
        /\ (exit_code = <<0>>) <=>
               \/ (Built /\ DryRunSet /\ ~Posted)
               \/ (Posted /\ post_status = "accepted")

C5_IsGet(call, latest, k) ==
    /\ call.kind = "GET"
    /\ IF k = 0 THEN call.filter = <<>>
       ELSE /\ Len(call.filter) = 1
            /\ LET d == ParseDate(call.filter[1]) IN
               /\ d.month \in 1..12
               /\ d.day \in 1..DaysInMonth(d.year, d.month)
               /\ ToOrdinal(d) = latest - k

(* C5: the network calls of a run are a prefix of GET latest, GET on or
   before latest-1, GET on or before latest-7, POST; the POST comes only
   after the three GETs have succeeded. *)
C5_CallOrder ==
    /\ Len(calls) <= (IF db = {} THEN 1 ELSE 4)
    /\ Len(calls) >= 1 => C5_IsGet(calls[1], 0, 0)
    /\ Len(calls) >= 2 =>
           LET latest == LatestOrd
           IN  /\ C5_IsGet(calls[2], latest, 1)
               /\ Len(calls) >= 3 => C5_IsGet(calls[3], latest, 7)
    /\ Len(calls) >= 4 => calls[4] = PostCall
    /\ Posted => /\ latest_row # NoRow
                 /\ y_row # NoRow
                 /\ w_row # NoRow
                 /\ Built

C5_Witness ==
    /\ Len(calls) = 4
    /\ calls[4].kind = "POST"
    /\ LatestOrd < ToOrdinal(clock)

C6_StateOk ==
    /\ ErrorLogged =>
           /\ Exited
           /\ exit_code = <<1>>
           /\ out[Len(out)].stream = "stderr"
           /\ PostedLine \notin Lines
    /\ (Exited /\ exit_code = <<1>>) => ErrorLogged
    /\ \A i, j \in 1..Len(calls) : (calls[i] = calls[j]) => (i = j)

C6_StepOk == (ErrorLogged \/ Exited) => (calls' = calls /\ out' = out)

(* C6: a failure ends the run: an error line is logged, the exit code is 1,
   success is never reported, no call is issued afterwards and no call is
   issued twice. *)
C6_FailureAborts == [](C6_StateOk) /\ [][C6_StepOk]_vars

C6_Witness ==
    /\ Len(calls) = 4
    /\ Len(out) = 2
    /\ out[2] = PostError("http_error")
    /\ exit_code = <<1>>

C7_Shown(text, delta) ==
    /\ text.sign = (IF delta >= 0 THEN "+" ELSE "-")
    /\ 2 * Abs(text.hundredths * (Billion \div 100) - Abs(delta)) <= Billion \div 100

(* C7: a built tweet shows the amount of the newest record, of the newest
   record dated at least 1 day before it and of the newest record dated at
   least 7 days before it, and the two deltas are the first amount minus the
   second and minus the third; with no record on or before a target date
   there is no tweet. *)
C7_TweetAmounts ==
    Built =>
        LET newest == Newest(db)
            day_before == OnOrBefore(OrdOf(newest) - 1)
            week_before == OnOrBefore(OrdOf(newest) - 7)
        IN
        /\ day_before # {}
        /\ week_before # {}
        /\ LET t == newest.tot_pub_debt_out_amt
               y == Newest(day_before).tot_pub_debt_out_amt
               w == Newest(week_before).tot_pub_debt_out_amt
           IN  /\ tweet.today = t
               /\ tweet.yesterday = y
               /\ tweet.week_ago = w
               /\ C7_Shown(tweet.daily, t - y)
               /\ C7_Shown(tweet.weekly, t - w)

C7_Witness ==
    /\ Built
    /\ Cardinality(db) = 3
    /\ LatestOrd - OrdOf(y_row) > 1
    /\ LatestOrd - OrdOf(w_row) > 7
    /\ y_row # w_row
    /\ tweet.daily.sign = "-"
    /\ tweet.yesterday # tweet.week_ago

C8_Rendered(text, today_debt, other_debt) ==
    LET delta == today_debt - other_debt
        unit == Billion \div 100
    IN  /\ (delta >= 0) => text.sign = "+"
        /\ (delta < 0) => text.sign = "-"
        /\ text.hundredths >= 0
        /\ 2 * Abs(text.hundredths * unit - Abs(delta)) <= unit

(* C8: a delta is rendered with "+" when it is zero or more and "-" when it
   is below zero, followed by its magnitude in billions rounded to two
   decimals; the sign is that of today's amount minus the compared one. *)
C8_SignedScaledDeltas ==
    Built =>
        /\ C8_Rendered(tweet.daily, latest_row.tot_pub_debt_out_amt,
                       y_row.tot_pub_debt_out_amt)
        /\ C8_Rendered(tweet.weekly, latest_row.tot_pub_debt_out_amt,
                       w_row.tot_pub_debt_out_amt)

C8_Witness ==
    /\ Built
    /\ latest_row.tot_pub_debt_out_amt = w_row.tot_pub_debt_out_amt
    /\ tweet.weekly = [sign |-> "+", hundredths |-> 0]
    /\ latest_row.tot_pub_debt_out_amt < y_row.tot_pub_debt_out_amt
    /\ tweet.daily.sign = "-"
    /\ tweet.daily.hundredths > 100

C9_StateOk ==
    /\ Previewed => (Built /\ out[1] = PreviewLine)
    /\ (Built /\ pc # "preview") => Previewed
    /\ (Posted \/ DryRunLine \in Lines \/ PostedLine \in Lines) => Previewed

C9_StepOk == (Len(calls') > Len(calls) /\ calls'[Len(calls')].kind = "POST") => Previewed

(* C9: the preview is printed in every run whose build succeeded, before any
   POST and before the run reports, and never in a run whose build failed. *)
C9_PreviewBeforePublish == [](C9_StateOk) /\ [][C9_StepOk]_vars

C9_Witness ==
    /\ Posted
    /\ PostedLine \in Lines
    /\ out[1] = PreviewLine

(* C10: in a built tweet the week-ago record is dated no later than the
   yesterday record, which is dated before the latest record: at least 1 day
   and at least 7 days before it; Today and Yesterday are never one record. *)
C10_RecordsOrdered ==
    Built =>
        /\ OrdOf(w_row) <= OrdOf(y_row)
        /\ OrdOf(y_row) < OrdOf(latest_row)
        /\ OrdOf(latest_row) - OrdOf(y_row) >= 1
        /\ OrdOf(latest_row) - OrdOf(w_row) >= 7
        /\ y_row # latest_row

C10_Witness ==
    /\ Built
    /\ OrdOf(latest_row) - OrdOf(y_row) = 1
    /\ OrdOf(latest_row) - OrdOf(w_row) = 7

====
